---- MODULE Spec2Model ----
(***************************************************************************)
(* Break-node synthesis (pyvrp/utils/break_nodes.py) and route             *)
(* reconciliation (pyvrp/utils/repair_breaks.py).                          *)
(*                                                                         *)
(* Index conventions.  Matrices, profile lists and vehicle-type lists are  *)
(* functions over 0..n-1, as in the Python source.  Routes, client lists   *)
(* and break-index lists are TLA+ sequences (1-based): Python position p   *)
(* is sequence position p+1.                                               *)
(***************************************************************************)
EXTENDS Integers, Sequences, FiniteSets, TLC

VARIABLES data, call, ret, solution, break_list, repair, removal

vars == <<data, call, ret, solution, break_list, repair, removal>>

synthVars == <<data, call, ret>>

reconVars == <<solution, break_list, repair, removal>>

\* ------------------------------------------------------------------ bounds
MaxDepots == 2

MaxClients == 1

MaxProfiles == 2

MaxTypes == 2

MaxAvail == 2

MaxSeed == 1

MaxBreaks == 2

MaxRoutes == 2

MaxVisits == 2

MaxBreakList == 2

\* --------------------------------------------------------------- constants
\* pyvrp.constants.MAX_VALUE, the "unreachable" sentinel.  The library value is
\* 1 << 44; the functions modelled here only store it and never do arithmetic
\* on it, so it is represented by the largest integer TLC handles.  Every
\* input cost is below it.
MAX_VALUE == 2147483647

\* ----------------------------------------------------------------- helpers
Range0(n) == 0..(n - 1)

\* Python's range(a, b) as a list.
RangeList(a, b) == [k \in 1..(IF b > a THEN b - a ELSE 0) |-> a + k - 1]

SeqToSet(s) == {s[k] : k \in 1..Len(s)}

\* Optional arguments: <<>> is None, <<v>> is a given value.
None == <<>>

Dim(m) == Cardinality(DOMAIN m)

\* Faulty variant of fill_diagonal: the diagonal is left as it is.
fill_diagonal_skipped(m, v) == m

\* np.fill_diagonal(m, v)
fill_diagonal(m, v) == [i \in DOMAIN m |-> [j \in DOMAIN m[i] |-> IF i = j THEN v ELSE m[i][j]]]

\* ------------------------------------------------------- ProblemData views
num_depots(d) == Len(d.depots)

num_clients(d) == Len(d.clients)

num_locations(d) == num_depots(d) + num_clients(d)

num_profiles(d) == Cardinality(DOMAIN d.distance_matrices)

num_vehicle_types(d) == Cardinality(DOMAIN d.vehicle_types)

RECURSIVE SumAvailable(_, _)
SumAvailable(vts, n) == IF n = 0 THEN 0 ELSE vts[n - 1].num_available + SumAvailable(vts, n - 1)

num_vehicles(d) == SumAvailable(d.vehicle_types, num_vehicle_types(d))

\* ------------------------------------------------ add_per_vehicle_break_nodes
\* The Client(...) built in the loop body for break number i.
BreakClient(depot, i, make_required, break_service, break_tw) ==
  [x |-> depot.x,
   y |-> depot.y,
   delivery |-> <<0>>,
   pickup |-> <<0>>,
   service_duration |-> IF break_service = None THEN depot.service_duration ELSE break_service[1],
   tw_early |-> IF break_tw = None THEN 11 * 60 ELSE break_tw[1],
   tw_late |-> IF break_tw = None THEN 14 * 60 ELSE break_tw[2],
   release_time |-> 0,
   prize |-> 0,
   required |-> make_required,
   group |-> None,
   name |-> "break_" \o ToString(i)]

\* Faulty variant of ExpandMatrix: the last original row / column is replicated
\* instead of row 0 / column 0.
ExpandMatrix_last_row(old, old_n, new_n, zero_travel) ==
  fill_diagonal(
    [i \in Range0(new_n) |-> [j \in Range0(new_n) |->
       IF i < old_n /\ j < old_n THEN old[i][j]
       ELSE IF (~zero_travel) /\ i >= old_n /\ j < old_n THEN old[old_n - 1][j]
       ELSE IF (~zero_travel) /\ i < old_n /\ j >= old_n THEN old[i][old_n - 1]
       ELSE 0]], 0)

\* One profile's matrix: zeros, the old block copied to the top left, under
\* "not zero_travel" row 0 / column 0 replicated into the new rows / columns,
\* and the diagonal zeroed.
ExpandMatrix(old, old_n, new_n, zero_travel) ==
  fill_diagonal(
    [i \in Range0(new_n) |-> [j \in Range0(new_n) |->
       IF i < old_n /\ j < old_n THEN old[i][j]
       ELSE IF (~zero_travel) /\ i >= old_n /\ j < old_n THEN old[0][j]
       ELSE IF (~zero_travel) /\ i < old_n /\ j >= old_n THEN old[i][0]
       ELSE 0]], 0)

\* Faulty variant of BreakIndices: client numbering, the depots not counted.
BreakIndices_client_indexing(d, num_breaks) ==
  RangeList(num_clients(d), num_clients(d) + num_breaks)

\* list(range(break_client_start, break_client_start + num_breaks))
BreakIndices(d, num_breaks) ==
  RangeList(num_locations(d), num_locations(d) + num_breaks)

\* Result of a call: raised is "" on a normal return and the exception's
\* type otherwise (new_data / break_indices are then not returned).
Returned(d, bi) == [raised |-> "", new_data |-> d, break_indices |-> bi]

NoInstance ==
  [depots |-> <<>>, clients |-> <<>>, vehicle_types |-> <<>>,
   distance_matrices |-> <<>>, duration_matrices |-> <<>>]

Raised(exc) == [raised |-> exc, new_data |-> NoInstance, break_indices |-> <<>>]

\* Faulty variant of add_per_vehicle_break_nodes: a negative depot index is not
\* rejected and indexes the depot list from its end.
add_per_vehicle_break_nodes_no_lower_check(d, num_breaks, depot_idx, make_required, zero_travel, break_service, break_tw) ==
  IF num_breaks <= 0 THEN Returned(d, <<>>)
  ELSE IF depot_idx >= Len(d.depots) \/ depot_idx < -Len(d.depots) THEN Raised("IndexError")
  ELSE
    LET old_n == num_locations(d)
        new_n == old_n + num_breaks
    IN  Returned([d EXCEPT
                    !.clients = d.clients \o [i \in 1..num_breaks |->
                        BreakClient(d.depots[(depot_idx % Len(d.depots)) + 1], i - 1, make_required, break_service, break_tw)],
                    !.distance_matrices = [p \in Range0(num_profiles(d)) |->
                        ExpandMatrix(d.distance_matrices[p], old_n, new_n, zero_travel)],
                    !.duration_matrices = [p \in Range0(num_profiles(d)) |->
                        ExpandMatrix(d.duration_matrices[p], old_n, new_n, zero_travel)]],
                 BreakIndices(d, num_breaks))

add_per_vehicle_break_nodes(d, num_breaks, depot_idx, make_required, zero_travel, break_service, break_tw) ==
  IF num_breaks <= 0 THEN Returned(d, <<>>)
  ELSE IF depot_idx < 0 \/ depot_idx >= Len(d.depots) THEN Raised("IndexError")
  ELSE
    LET depot == d.depots[depot_idx + 1]
        break_clients == [i \in 1..num_breaks |->
                            BreakClient(depot, i - 1, make_required, break_service, break_tw)]
        old_num_locations == num_locations(d)
        new_num_locations == old_num_locations + num_breaks
        new_dist_mats == [p \in Range0(num_profiles(d)) |->
                            ExpandMatrix(d.distance_matrices[p], old_num_locations, new_num_locations, zero_travel)]
        new_dur_mats == [p \in Range0(num_profiles(d)) |->
                            ExpandMatrix(d.duration_matrices[p], old_num_locations, new_num_locations, zero_travel)]
        new_data == [d EXCEPT !.clients = d.clients \o break_clients,
                              !.distance_matrices = new_dist_mats,
                              !.duration_matrices = new_dur_mats]
    IN  Returned(new_data, BreakIndices(d, num_breaks))

\* -------------------------------------------------- add_one_break_per_vehicle
\* "Expand to new size if necessary": a base matrix smaller than the new
\* size is embedded in a MAX_VALUE-filled matrix.
ExpandIfNeeded(m, old_num_locations, new_num_locations) ==
  IF Dim(m) # new_num_locations
  THEN [i \in Range0(new_num_locations) |-> [j \in Range0(new_num_locations) |->
          IF i < old_num_locations /\ j < old_num_locations THEN m[i][j] ELSE MAX_VALUE]]
  ELSE m

\* Faulty variant of ForbidOtherBreaks: the assigned break is forbidden too.
ForbidOtherBreaks_assigned_too(m, old_num_locations, new_num_locations, assigned_break_idx) ==
  [i \in DOMAIN m |-> [j \in DOMAIN m[i] |->
     IF \E b \in old_num_locations..(new_num_locations - 1) : i = b \/ j = b
     THEN MAX_VALUE ELSE m[i][j]]]

\* The "for b in range(old_num_locations, new_num_locations)" loop: rows and
\* columns of every break other than the assigned one are set to MAX_VALUE.
ForbidOtherBreaks(m, old_num_locations, new_num_locations, assigned_break_idx) ==
  [i \in DOMAIN m |-> [j \in DOMAIN m[i] |->
     IF \E b \in old_num_locations..(new_num_locations - 1) :
          b # assigned_break_idx /\ (i = b \/ j = b)
     THEN MAX_VALUE ELSE m[i][j]]]

\* The matrix of vehicle veh's profile (one iteration of the first loop).
VehicleMatrix(base, veh, old_num_locations, new_num_locations) ==
  fill_diagonal(
    ForbidOtherBreaks(ExpandIfNeeded(base, old_num_locations, new_num_locations),
                      old_num_locations, new_num_locations, old_num_locations + veh), 0)

\* Faulty variant of VehicleType: every vehicle is cloned from the first type.
VehicleType_first_parent(orig_vtypes, veh) ==
  [orig_vtypes[0] EXCEPT !.num_available = 1, !.profile = veh, !.name = ToString(veh)]

\* parent.replace(num_available=1, profile=veh, name=str(veh)) with the parent
\* chosen round-robin (one iteration of the second loop).
VehicleType(orig_vtypes, veh) ==
  [orig_vtypes[veh % Cardinality(DOMAIN orig_vtypes)]
     EXCEPT !.num_available = 1, !.profile = veh, !.name = ToString(veh)]

add_one_break_per_vehicle(d, break_service, break_tw, depot_idx) ==
  IF num_vehicles(d) <= 0 THEN Returned(d, <<>>)
  ELSE
    LET nv == num_vehicles(d)
        r == add_per_vehicle_break_nodes(d, nv, depot_idx, TRUE, TRUE, <<break_service>>, break_tw)
    IN  IF r.raised # "" THEN r
        ELSE
          LET new_data == r.new_data
              old_num_locations == num_locations(d)
              base_dist == new_data.distance_matrices[0]
              base_dur == new_data.duration_matrices[0]
              new_num_locations == num_locations(new_data)
              dist_mats == [veh \in Range0(nv) |->
                              VehicleMatrix(base_dist, veh, old_num_locations, new_num_locations)]
              dur_mats == [veh \in Range0(nv) |->
                              VehicleMatrix(base_dur, veh, old_num_locations, new_num_locations)]
              new_vehicle_types == [veh \in Range0(nv) |-> VehicleType(d.vehicle_types, veh)]
          IN  Returned([new_data EXCEPT !.vehicle_types = new_vehicle_types,
                                        !.distance_matrices = dist_mats,
                                        !.duration_matrices = dur_mats],
                       RangeList(old_num_locations, old_num_locations + nv))

\* ------------------------------------------------------------ input instances
\* Locations of an input instance: the depots first, then the clients.
Depot(k) == [x |-> k, y |-> 2 * k, service_duration |-> 3 + k]

OrigClient(k) ==
  [x |-> 10 + k, y |-> 20 + k, delivery |-> <<1>>, pickup |-> <<0>>,
   service_duration |-> 5, tw_early |-> 0, tw_late |-> 1000, release_time |-> 0,
   prize |-> 0, required |-> TRUE, group |-> None, name |-> "client_" \o ToString(k)]

\* Input matrices have a zero diagonal (ProblemData rejects any other). Off the
\* diagonal, seed 0 gives the all-zero matrix and every other seed a matrix
\* whose entries differ from cell to cell, from profile to profile and between
\* distance and duration, and are below MAX_VALUE.
Stride == MaxDepots + MaxClients + 1

CellCode(p, i, j) == 1 + (p * Stride + i) * Stride + j

InputDistance(seed, p, n) ==
  [i \in Range0(n) |-> [j \in Range0(n) |-> IF i = j THEN 0 ELSE seed * CellCode(p, i, j)]]

InputDuration(seed, p, n) ==
  [i \in Range0(n) |-> [j \in Range0(n) |->
     IF i = j THEN 0 ELSE seed * (CellCode(MaxProfiles, 0, 0) + CellCode(p, i, j))]]

\* Fleets: a list of vehicle types, each with its own capacity and name.
InputVehicleTypes(avail, nprof) ==
  [t \in Range0(Len(avail)) |->
     [num_available |-> avail[t + 1], capacity |-> 10 * (t + 1),
      profile |-> t % nprof, name |-> "vt_" \o ToString(t)]]

Fleets == UNION {[1..n -> 1..MaxAvail] : n \in 0..MaxTypes}

Instance(nd, nc, np, avail, seed) ==
  [depots |-> [k \in 1..nd |-> Depot(k - 1)],
   clients |-> [k \in 1..nc |-> OrigClient(k - 1)],
   vehicle_types |-> InputVehicleTypes(avail, np),
   distance_matrices |-> [p \in Range0(np) |-> InputDistance(seed, p, nd + nc)],
   duration_matrices |-> [p \in Range0(np) |-> InputDuration(seed, p, nd + nc)]]

Instances ==
  {Instance(nd, nc, np, avail, seed) :
     nd \in 1..MaxDepots, nc \in 0..MaxClients, np \in 1..MaxProfiles,
     avail \in Fleets, seed \in 0..MaxSeed}

\* Optional break attributes used by the calls.
BreakServices == {None, <<15>>}

BreakTimeWindows == {None, <<600, 720>>}

BreakOptions ==
  {[make_required |-> TRUE, break_service |-> None, break_tw |-> None],
   [make_required |-> FALSE, break_service |-> <<15>>, break_tw |-> <<600, 720>>]}

NoCall == [op |-> "", num_breaks |-> 0, depot_idx |-> 0, zero_travel |-> TRUE]

NoRet == [raised |-> "", new_data |-> NoInstance, break_indices |-> <<>>]

NoRepair == [called |-> FALSE, final_routes |-> <<>>, all_ok |-> TRUE, assigned |-> <<>>]

NoRemoval == [called |-> FALSE, routes |-> <<>>, filtered |-> <<>>, removed |-> 0]

\* ------------------------------------------------------- synthesis: the calls
\* A behaviour is one call on one input instance; the instance itself is
\* never written (both functions build new matrices and lists).
InitSynth ==
  /\ data \in Instances
  /\ call = NoCall
  /\ ret = NoRet
  /\ solution = <<>>
  /\ break_list = <<>>
  /\ repair = NoRepair
  /\ removal = NoRemoval

CallAddPerVehicleBreakNodes ==
  \E num_breaks \in 0..MaxBreaks, depot_idx \in -1..num_depots(data),
     zero_travel \in BOOLEAN, o \in BreakOptions :
    /\ call = NoCall
    /\ call' = [op |-> "add_per_vehicle_break_nodes", num_breaks |-> num_breaks,
                depot_idx |-> depot_idx, zero_travel |-> zero_travel]
    /\ ret' = add_per_vehicle_break_nodes(data, num_breaks, depot_idx, o.make_required,
                                          zero_travel, o.break_service, o.break_tw)
    /\ UNCHANGED <<data, reconVars>>

CallAddOneBreakPerVehicle ==
  \E depot_idx \in -1..num_depots(data), break_service \in {15}, break_tw \in {<<600, 720>>} :
    /\ call = NoCall
    /\ call' = [op |-> "add_one_break_per_vehicle", num_breaks |-> num_vehicles(data),
                depot_idx |-> depot_idx, zero_travel |-> TRUE]
    /\ ret' = add_one_break_per_vehicle(data, break_service, break_tw, depot_idx)
    /\ UNCHANGED <<data, reconVars>>

NextSynth == CallAddPerVehicleBreakNodes \/ CallAddOneBreakPerVehicle

SpecSynth == InitSynth /\ [][NextSynth]_vars

\* ------------------------------------------------------ synthesis: properties
IsAddPerVehicle == call.op = "add_per_vehicle_break_nodes"

IsAddOne == call.op = "add_one_break_per_vehicle"

ValidDepot == call.depot_idx >= 0 /\ call.depot_idx < num_depots(data)

OldN == num_locations(data)

NewN == num_locations(ret.new_data)

\* The distance and duration matrices of profile p of an instance.
MatricesOf(d, p) == {d.distance_matrices[p], d.duration_matrices[p]}

\* C1: after add_one_break_per_vehicle, in the distance and duration matrices
\* of vehicle v's profile, every entry of the row and of the column of a break
\* node other than v's own is MAX_VALUE except on the diagonal, and the entries
\* between v's own break node and every depot and original client are 0 in
\* both directions.
C1_Exclusivity ==
  (IsAddOne /\ ret.raised = "" /\ num_vehicles(data) >= 1) =>
    \A v \in Range0(num_vehicles(data)) :
      \A b \in OldN..(OldN + num_vehicles(data) - 1) :
        \A M \in MatricesOf(ret.new_data, v) :
          IF b # OldN + v
          THEN \A k \in Range0(NewN) : k # b => (M[b][k] = MAX_VALUE /\ M[k][b] = MAX_VALUE)
          ELSE \A k \in Range0(OldN) : M[b][k] = 0 /\ M[k][b] = 0

C1_Witness ==
  /\ IsAddOne /\ ret.raised = ""
  /\ num_vehicles(data) >= 2
  /\ num_clients(data) >= 1
  /\ data.distance_matrices[0][0][1] > 0
  /\ ret.new_data.distance_matrices[1][OldN][0] = MAX_VALUE
  /\ ret.new_data.distance_matrices[1][OldN + 1][0] = 0

\* C2: with a valid depot index, add_per_vehicle_break_nodes with K >= 0
\* returns an instance with exactly K more clients and locations and the break
\* indices old_num_locations, ..., old_num_locations + K - 1 in increasing
\* order; for K = 0 it returns the input itself and the empty list.
C2_BreakCountAndIndices ==
  (IsAddPerVehicle /\ ValidDepot /\ call.num_breaks >= 0) =>
    /\ ret.raised = ""
    /\ num_clients(ret.new_data) = num_clients(data) + call.num_breaks
    /\ NewN = OldN + call.num_breaks
    /\ num_depots(ret.new_data) = num_depots(data)
    /\ Len(ret.break_indices) = call.num_breaks
    /\ \A k \in 1..Len(ret.break_indices) : ret.break_indices[k] = OldN + k - 1
    /\ (call.num_breaks = 0 => (ret.new_data = data /\ ret.break_indices = <<>>))

C2_Witness ==
  /\ IsAddPerVehicle /\ ValidDepot /\ ret.raised = ""
  /\ call.num_breaks = 2
  /\ num_depots(data) = 2
  /\ ret.break_indices = <<OldN, OldN + 1>>
  /\ num_clients(ret.new_data) = num_clients(data) + 2

SquareZeroDiagonal(M, n) ==
  /\ DOMAIN M = Range0(n)
  /\ \A i \in Range0(n) : DOMAIN M[i] = Range0(n) /\ M[i][i] = 0

\* C3: every distance and duration matrix of every profile returned by
\* add_per_vehicle_break_nodes (zero_travel true or false) and by
\* add_one_break_per_vehicle is new_num_locations x new_num_locations and is 0
\* at every diagonal entry, the break rows set to MAX_VALUE included.
C3_ZeroDiagonalSquare ==
  ((IsAddPerVehicle \/ IsAddOne) /\ ret.raised = "") =>
    /\ DOMAIN ret.new_data.duration_matrices = DOMAIN ret.new_data.distance_matrices
    /\ \A p \in Range0(num_profiles(ret.new_data)) :
         \A M \in MatricesOf(ret.new_data, p) : SquareZeroDiagonal(M, NewN)

C3_Witness ==
  /\ IsAddOne /\ ret.raised = ""
  /\ num_vehicles(data) >= 2
  /\ ret.new_data.distance_matrices[0][OldN + 1][OldN] = MAX_VALUE
  /\ ret.new_data.distance_matrices[0][OldN + 1][OldN + 1] = 0

\* C4: after add_one_break_per_vehicle on an instance with num_vehicles >= 1
\* there are exactly num_vehicles vehicle types, each with num_available = 1,
\* the type at position v has profile v, there are num_vehicles matrix pairs,
\* and the type at position v is original type (v mod number of original
\* types) with its other parameters unchanged.
C4_VehicleTypes ==
  (IsAddOne /\ ret.raised = "" /\ num_vehicles(data) >= 1) =>
    LET nv == num_vehicles(data)
        nt == num_vehicle_types(data)
        new == ret.new_data
    IN  /\ DOMAIN new.vehicle_types = Range0(nv)
        /\ DOMAIN new.distance_matrices = Range0(nv)
        /\ DOMAIN new.duration_matrices = Range0(nv)
        /\ num_vehicles(new) = nv
        /\ \A v \in Range0(nv) :
             /\ new.vehicle_types[v].num_available = 1
             /\ new.vehicle_types[v].profile = v
             /\ new.vehicle_types[v].capacity = data.vehicle_types[v % nt].capacity
             /\ new.vehicle_types[v] =
                  [data.vehicle_types[v % nt] EXCEPT !.num_available = new.vehicle_types[v].num_available,
                                                     !.profile = new.vehicle_types[v].profile,
                                                     !.name = new.vehicle_types[v].name]

C4_Witness ==
  /\ IsAddOne /\ ret.raised = ""
  /\ num_vehicle_types(data) = 2
  /\ num_vehicles(data) = 3
  /\ ret.new_data.vehicle_types[1].capacity # ret.new_data.vehicle_types[0].capacity
  /\ ret.new_data.vehicle_types[2].capacity = ret.new_data.vehicle_types[0].capacity

\* C8 as stated: an invalid depot index makes add_per_vehicle_break_nodes fail
\* with IndexError and return no instance for every K >= 0, and likewise
\* add_one_break_per_vehicle for every fleet size.
C8_AlwaysIndexError ==
  ((IsAddPerVehicle \/ IsAddOne) /\ ~ValidDepot) =>
    (ret.raised = "IndexError" /\ ret.new_data = NoInstance)

\* C8 amended: an invalid depot index makes add_per_vehicle_break_nodes fail
\* with IndexError and return no instance for every K >= 1, and
\* add_one_break_per_vehicle for every fleet size >= 1; with K = 0 (fleet size
\* 0) the call returns the input instance and an empty list whatever the depot
\* index.
C8_IndexErrorWhenBreaksRequested ==
  ((IsAddPerVehicle \/ IsAddOne) /\ ~ValidDepot) =>
    IF call.num_breaks >= 1
    THEN ret.raised = "IndexError" /\ ret.new_data = NoInstance /\ ret.break_indices = <<>>
    ELSE ret.raised = "" /\ ret.new_data = data /\ ret.break_indices = <<>>

C8_Witness ==
  /\ IsAddOne
  /\ call.depot_idx = -1
  /\ num_vehicles(data) >= 1
  /\ ret.raised = "IndexError"

\* C10: add_per_vehicle_break_nodes with K >= 1 keeps the number of profiles
\* and, for every profile, the input's entries at every off-diagonal pair of
\* original indices; under zero_travel every entry with a row or column index
\* >= old_num_locations is 0; otherwise each new row equals input row 0 and
\* each new column input column 0 over the original indices, and the
\* break-to-break block is 0.
C10_Frame ==
  (IsAddPerVehicle /\ ret.raised = "" /\ call.num_breaks >= 1) =>
    /\ num_profiles(ret.new_data) = num_profiles(data)
    /\ \A p \in Range0(num_profiles(data)) :
         \A f \in {"distance_matrices", "duration_matrices"} :
           LET old == data[f][p]
               new == ret.new_data[f][p]
           IN  /\ \A i, j \in Range0(OldN) : i # j => new[i][j] = old[i][j]
               /\ \A b, c \in OldN..(NewN - 1) : new[b][c] = 0
               /\ \A b \in OldN..(NewN - 1) : \A j \in Range0(OldN) :
                    IF call.zero_travel
                    THEN new[b][j] = 0 /\ new[j][b] = 0
                    ELSE new[b][j] = old[0][j] /\ new[j][b] = old[j][0]

C10_Witness ==
  /\ IsAddPerVehicle /\ ret.raised = ""
  /\ call.num_breaks = 2
  /\ ~call.zero_travel
  /\ OldN >= 2
  /\ data.distance_matrices[0][0][1] # data.distance_matrices[0][1][0]
  /\ ret.new_data.distance_matrices[0][OldN][1] = data.distance_matrices[0][0][1]
  /\ ret.new_data.distance_matrices[0][1][OldN + 1] = data.distance_matrices[0][1][0]

\* ------------------------------------------------ repair_one_break_per_route
\* list.insert(pos, x) for 0 <= pos <= len(visits).
ListInsert(visits, pos, x) ==
  SubSeq(visits, 1, pos) \o <<x>> \o SubSeq(visits, pos + 1, Len(visits))

\* The "for b in break_indices" loop from entry k on: the first entry
\* not in used_breaks, or None.
RECURSIVE FirstUnused(_, _, _)
FirstUnused(break_indices, used_breaks, k) ==
  IF k > Len(break_indices) THEN None
  ELSE IF break_indices[k] \notin used_breaks THEN <<break_indices[k]>>
  ELSE FirstUnused(break_indices, used_breaks, k + 1)

\* Faulty variant of MarkUsed: the break is not recorded as used.
MarkUsed_forgotten(used_breaks, b) == used_breaks

\* used_breaks.add(b)
MarkUsed(used_breaks, b) == used_breaks \cup {b}

\* Faulty variant of InsertPos: always the front of the route.
InsertPos_front(visits) == 0

\* insert_pos = 1 if len(visits) >= 1 else 0
InsertPos(visits) == IF Len(visits) >= 1 THEN 1 ELSE 0

\* The visits appended to final_routes for one route.
RepairRoute(visits, assigned_break) ==
  IF assigned_break = None THEN visits
  ELSE ListInsert(visits, InsertPos(visits), assigned_break[1])

\* The "for r in routes" loop from route k on.  acc carries final_routes and
\* all_ok, and assigned records each iteration's assigned_break.
RECURSIVE RepairLoop(_, _, _, _, _)
RepairLoop(routes, k, break_indices, used_breaks, acc) ==
  IF k > Len(routes) THEN acc
  ELSE
    LET assigned_break == FirstUnused(break_indices, used_breaks, 1)
    IN  RepairLoop(routes, k + 1, break_indices,
                   IF assigned_break = None THEN used_breaks
                   ELSE MarkUsed(used_breaks, assigned_break[1]),
                   [final_routes |-> Append(acc.final_routes, RepairRoute(routes[k], assigned_break)),
                    all_ok |-> acc.all_ok /\ assigned_break # None,
                    assigned |-> Append(acc.assigned, assigned_break)])

\* routes is the solution's list of visit lists (what solution.routes() and
\* r.visits(), or their list fallbacks, yield); d is not used by the code.
repair_one_break_per_route(d, routes, break_indices) ==
  RepairLoop(routes, 1, break_indices, {},
             [final_routes |-> <<>>, all_ok |-> TRUE, assigned |-> <<>>])

\* -------------------------------------------------- remove_break_only_routes
\* Faulty variant of has_non_break: a route without visits counts as kept.
has_non_break_or_empty(r, break_set) == r = <<>> \/ \E k \in 1..Len(r) : r[k] \notin break_set

\* any((v not in break_set) for v in r)
has_non_break(r, break_set) == \E k \in 1..Len(r) : r[k] \notin break_set

RECURSIVE RemoveLoop(_, _, _, _)
RemoveLoop(routes, k, break_set, acc) ==
  IF k > Len(routes) THEN acc
  ELSE RemoveLoop(routes, k + 1, break_set,
                  IF ~has_non_break(routes[k], break_set)
                  THEN [acc EXCEPT !.removed = @ + 1]
                  ELSE [acc EXCEPT !.filtered = Append(@, routes[k])])

remove_break_only_routes(routes, break_indices) ==
  RemoveLoop(routes, 1, SeqToSet(break_indices), [filtered |-> <<>>, removed |-> 0])

\* ------------------------------------------------- reconciliation: the calls
\* Visits are location indices of the extended instance: a client and a break
\* node; break-index lists are over two break nodes and may repeat an entry.
VisitNodes == {1, 2}

BreakNodes == {2, 3}

SeqsUpTo(S, n) == UNION {[1..m -> S] : m \in 0..n}

Routes == SeqsUpTo(VisitNodes, MaxVisits)

InitRecon ==
  /\ data = NoInstance
  /\ call = NoCall
  /\ ret = NoRet
  /\ solution \in SeqsUpTo(Routes, MaxRoutes)
  /\ break_list \in SeqsUpTo(BreakNodes, MaxBreakList)
  /\ repair = NoRepair
  /\ removal = NoRemoval

CallRepair ==
  /\ ~repair.called
  /\ repair' = [called |-> TRUE] @@ repair_one_break_per_route(data, solution, break_list)
  /\ UNCHANGED <<synthVars, solution, break_list, removal>>

\* remove_break_only_routes is applied to the routes as solved or as repaired.
CallRemove ==
  /\ ~removal.called
  /\ \E routes \in {solution} \cup (IF repair.called THEN {repair.final_routes} ELSE {}) :
       removal' = [called |-> TRUE, routes |-> routes] @@ remove_break_only_routes(routes, break_list)
  /\ UNCHANGED <<synthVars, solution, break_list, repair>>

NextRecon == CallRepair \/ CallRemove

SpecRecon == InitRecon /\ [][NextRecon]_vars

\* ------------------------------------------------ reconciliation: properties
NumRoutes == Len(solution)

\* Route k was given break b: it is recorded as assigned, is a break-index
\* entry, and the returned route is one longer and contains it.
Augmented(k) ==
  /\ repair.assigned[k] # None
  /\ repair.assigned[k][1] \in SeqToSet(break_list)
  /\ Len(repair.final_routes[k]) = Len(solution[k]) + 1
  /\ repair.assigned[k][1] \in SeqToSet(repair.final_routes[k])

Unmodified(k) == repair.assigned[k] = None /\ repair.final_routes[k] = solution[k]

\* The repair outcome for R routes when B breaks are available.
RepairOutcome(B) ==
  /\ Len(repair.final_routes) = NumRoutes
  /\ IF NumRoutes <= B
     THEN /\ repair.all_ok
          /\ \A k \in 1..NumRoutes : Augmented(k)
          /\ \A k, l \in 1..NumRoutes : k # l => repair.assigned[k] # repair.assigned[l]
     ELSE /\ ~repair.all_ok
          /\ \A k \in 1..B : Augmented(k)
          /\ \A k, l \in 1..B : k # l => repair.assigned[k] # repair.assigned[l]
          /\ \A k \in (B + 1)..NumRoutes : Unmodified(k)

\* C5 as stated: with B the length of the break-index list, R <= B gives every
\* route a distinct break and success; R > B augments exactly the first B
\* routes, leaves the rest unmodified and reports failure; R routes are
\* returned in either case.
C5_ByListLength == repair.called => RepairOutcome(Len(break_list))

\* C5 amended: the same with B the number of distinct values in the
\* break-index list (its length when no entry is repeated).
C5_ByDistinctBreaks == repair.called => RepairOutcome(Cardinality(SeqToSet(break_list)))

C5_Witness ==
  /\ repair.called
  /\ NumRoutes = 2
  /\ break_list = <<3, 3>>
  /\ ~repair.all_ok
  /\ repair.final_routes[1] = ListInsert(solution[1], InsertPos(solution[1]), 3)
  /\ repair.final_routes[2] = solution[2]

BreakVisits(r) == Cardinality({k \in 1..Len(r) : r[k] \in SeqToSet(break_list)})

\* C6: whenever repair_one_break_per_route returns all_ok true, every returned
\* route contains exactly one visit that is a member of break_indices.
C6_ExactlyOneBreakPerRoute ==
  (repair.called /\ repair.all_ok) =>
    \A k \in 1..Len(repair.final_routes) : BreakVisits(repair.final_routes[k]) = 1

KeepRoute(r) == \E k \in 1..Len(r) : r[k] \notin SeqToSet(break_list)

\* C7: remove_break_only_routes returns the routes having at least one visit
\* not in break_indices, in their original order; a route without visits is
\* discarded; removed counts the discarded routes; an empty list gives
\* ([], 0).
C7_FilterBreakOnly ==
  removal.called =>
    /\ removal.filtered = SelectSeq(removal.routes, KeepRoute)
    /\ removal.removed = Cardinality({k \in 1..Len(removal.routes) : ~KeepRoute(removal.routes[k])})
    /\ Len(removal.filtered) + removal.removed = Len(removal.routes)
    /\ \A k \in 1..Len(removal.filtered) : removal.filtered[k] # <<>>
    /\ (removal.routes = <<>> => (removal.filtered = <<>> /\ removal.removed = 0))

C7_Witness ==
  /\ removal.called
  /\ removal.routes = <<<<>>, <<1, 2>>>>
  /\ break_list = <<2>>
  /\ removal.filtered = <<<<1, 2>>>>
  /\ removal.removed = 1

\* The distinct values of a list in order of first occurrence.
RECURSIVE Dedup(_)
Dedup(s) ==
  IF s = <<>> THEN <<>>
  ELSE LET front == SubSeq(s, 1, Len(s) - 1)
       IN  IF s[Len(s)] \in SeqToSet(front) THEN Dedup(front)
           ELSE Append(Dedup(front), s[Len(s)])

\* C9: a route that is assigned a break is returned with that break inserted
\* at Python position 1 when it has at least one visit and at position 0 when
\* it is empty, its own visits kept in order and the result one longer; the
\* i-th processed route is assigned the i-th not-yet-used entry of
\* break_indices in list order.
C9_InsertionAndOrder ==
  repair.called =>
    \A k \in 1..NumRoutes :
      repair.assigned[k] # None =>
        LET b == repair.assigned[k][1]
            old == solution[k]
            new == repair.final_routes[k]
            pos == IF Len(old) >= 1 THEN 2 ELSE 1
        IN  /\ Len(new) = Len(old) + 1
            /\ new[pos] = b
            /\ \A q \in 1..(pos - 1) : new[q] = old[q]
            /\ \A q \in pos..Len(old) : new[q + 1] = old[q]
            /\ k <= Len(Dedup(break_list))
            /\ b = Dedup(break_list)[k]

C9_Witness ==
  /\ repair.called
  /\ break_list = <<3, 2>>
  /\ solution = <<<<1, 2>>, <<>>>>
  /\ repair.final_routes = <<<<1, 3, 2>>, <<2>>>>

====
